---- MODULE Spec2Model ----
(***************************************************************************)
(* Course API (src/main.py): four MongoDB collections behind FastAPI       *)
(* request handlers.  Every pymongo call is one atomic storage step; a     *)
(* handler that makes two storage calls (update_*, get_courses_of_student, *)
(* get_students_of_course) is two steps, and other requests may run        *)
(* between them.  Handlers receive bodies that FastAPI has already         *)
(* validated against the pydantic schema.                                  *)
(***************************************************************************)
EXTENDS Integers, Sequences, FiniteSets, TLC

\* ------------------------------------------------------------------ bounds
\* Number of hex characters of an identifier string (24 in bson; scaled).
IdLen == 2
\* Number of ObjectIds the storage assigns in a run of Spec.
MaxDocs == 2
\* Number of ObjectIds the storage assigns in a run of SpecRel.
MaxRelDocs == 4
\* Number of ObjectIds the storage assigns in a run of SpecClock.
MaxClockDocs == 3
\* Largest value of the wall clock.
MaxClock == 2
\* Number of requests that may be between their two storage calls.
MaxInflight == 1

\* ------------------------------------------------------- identifier codec
\* Python's None in a document field.
None == "None"

LowerHex == <<"0","1","2","3","4","5","6","7","8","9","a","b","c","d","e","f">>
UpperHex == <<"0","1","2","3","4","5","6","7","8","9","A","B","C","D","E","F">>

IsHexChar(c) == \E i \in 1..16 : LowerHex[i] = c \/ UpperHex[i] = c

HexVal(c) == (CHOOSE i \in 1..16 : LowerHex[i] = c \/ UpperHex[i] = c) - 1

\* ObjectId(raw) succeeds for a str of exactly IdLen characters, all hex, of
\* either case, and raises bson.errors.InvalidId otherwise.
IsValidId(s) == Len(s) = IdLen /\ \A i \in 1..Len(s) : IsHexChar(s[i])

RECURSIVE HexToInt(_)
HexToInt(s) ==
    IF s = <<>> THEN 0
    ELSE 16 * HexToInt(SubSeq(s, 1, Len(s) - 1)) + HexVal(s[Len(s)])

\* ObjectId(raw): the internal identifier (its numeric value), where
\* IsValidId(raw).
ObjectId(raw) == HexToInt(raw)

\* str(oid): IdLen lower-case hex characters.
ObjectIdStr(oid) ==
    [i \in 1..IdLen |-> LowerHex[((oid \div (16 ^ (IdLen - i))) % 16) + 1]]

\* ------------------------------------------------------------ client input
\* The first identifier the storage assigns (all characters "a").
FirstOid == HexToInt([i \in 1..IdLen |-> "a"])

UpperStr(s) == [i \in 1..Len(s) |-> UpperHex[HexVal(s[i]) + 1]]

\* Malformed identifier strings: a non-hex character, and a wrong length.
NonHexId == [i \in 1..IdLen |-> "g"]
ShortId == [i \in 1..(IdLen - 1) |-> "a"]
MalformedIds == {NonHexId, ShortId}

\* ------------------------------------------------------------------- state
VARIABLES
    instructors_col,    \* ObjectId -> document (without its _id)
    students_col,
    courses_col,
    enrollments_col,
    next_oid,           \* the ObjectId the next insert_one assigns
    clock,              \* datetime.utcnow() at this moment
    default_timestamp,  \* EnrollmentCreate.timestamp's default value
    inflight,           \* handlers between their first and second storage call
    resp                \* the last request answered, with its response

vars == <<instructors_col, students_col, courses_col, enrollments_col,
          next_oid, clock, default_timestamp, inflight, resp>>

cols == <<instructors_col, students_col, courses_col, enrollments_col>>

\* ---------------------------------------------------------- request bodies
InstructorCreate ==
    { [name |-> "Ada", email |-> "ada@x.com", expertise |-> "ml"],
      [name |-> "Bob", email |-> "bob@x.com", expertise |-> None] }

StudentCreate ==
    { [name |-> "Eve", email |-> "eve@x.com"],
      [name |-> "Dan", email |-> "dan@x.com"] }

\* The identifier strings of a collection's documents.
IdsOf(col) == {ObjectIdStr(o) : o \in DOMAIN col}

\* Reference strings a client puts in a body (any string is accepted): the
\* identifiers of the documents of col, in either case, and a malformed one.
RefIds(col) == IdsOf(col) \cup {UpperStr(r) : r \in IdsOf(col)} \cup {NonHexId}

CourseCreate ==
    { [title |-> "CS101", description |-> "intro", instructor_id |-> r] :
        r \in IdsOf(instructors_col) \cup {NonHexId} }
    \cup { [title |-> "CS102", description |-> None, instructor_id |-> r] :
        r \in IdsOf(instructors_col) }

\* A timestamp the client sends explicitly.
ExplicitTimestamps == {MaxClock + 1}

\* The enrollment body as sent: the client may omit the timestamp field.
BodiesWithoutTimestamp ==
    [student_id : RefIds(students_col), course_id : RefIds(courses_col)]

BodiesWithTimestamp ==
    [student_id : IdsOf(students_col) \cup {NonHexId},
     course_id : IdsOf(courses_col) \cup {NonHexId},
     timestamp : ExplicitTimestamps]

EnrollmentBodies == BodiesWithoutTimestamp \cup BodiesWithTimestamp

\* EnrollmentCreate(**body): an omitted timestamp takes the class default,
\* which `datetime.utcnow()` computed once, when the class was defined.
EnrollmentCreate(body) ==
    [student_id |-> body.student_id, course_id |-> body.course_id,
     timestamp |-> IF "timestamp" \in DOMAIN body THEN body.timestamp
                   ELSE default_timestamp]

\* Identifier strings a client puts in a path: those of the first n
\* ObjectIds, the first one in upper case, and the malformed ones.
PathIds(n) ==
    {ObjectIdStr(o) : o \in FirstOid .. (FirstOid + n - 1)}
    \cup {UpperStr(ObjectIdStr(FirstOid))} \cup MalformedIds

\* ------------------------------------------------------- storage accessor
insert_one(col, oid, doc) ==
    [o \in DOMAIN col \cup {oid} |-> IF o = oid THEN doc ELSE col[o]]

\* Fault: the update document leaves out the fields that are None, as
\* data.dict(exclude_none=True) would.
update_one_exclude_none(col, oid, data) ==
    IF oid \in DOMAIN col
    THEN [col EXCEPT ![oid] =
            [f \in DOMAIN col[oid] \cup DOMAIN data |->
                IF f \in DOMAIN data /\ data[f] # None THEN data[f] ELSE col[oid][f]]]
    ELSE col

\* update_one({"_id": oid}, {"$set": data}): the fields of data overwrite the
\* document's, the others stay.
update_one(col, oid, data) ==
    IF oid \in DOMAIN col
    THEN [col EXCEPT ![oid] =
            [f \in DOMAIN col[oid] \cup DOMAIN data |->
                IF f \in DOMAIN data THEN data[f] ELSE col[oid][f]]]
    ELSE col

matched_count(col, oid) == IF oid \in DOMAIN col THEN 1 ELSE 0

delete_one(col, oid) == [o \in DOMAIN col \ {oid} |-> col[o]]

deleted_count(col, oid) == IF oid \in DOMAIN col THEN 1 ELSE 0

\* The ObjectIds of S in the storage's order (ascending).
RECURSIVE InOrder(_)
InOrder(S) ==
    IF S = {} THEN <<>>
    ELSE LET m == CHOOSE x \in S : \A y \in S : x <= y
         IN <<m>> \o InOrder(S \ {m})

\* d["_id"] = str(d["_id"])
WithId(oid, doc) == [f \in DOMAIN doc \cup {"_id"} |->
                        IF f = "_id" THEN ObjectIdStr(oid) ELSE doc[f]]

\* list(col.find(filter)) followed by the _id conversion loop; matching is
\* the set of ObjectIds of col that the filter selects.
find(col, matching) ==
    LET order == InOrder(matching)
    IN [i \in 1..Len(order) |-> WithId(order[i], col[order[i]])]

\* --------------------------------------------------------------- responses
\* A request without a path identifier, without a body.
NoId == <<>>
NoData == <<>>

\* The request answered (op, id, data) and the answer: the status code and
\* the JSON documents of the body, a single object as a sequence of one.
Response(op, id, data, status, body) ==
    [op |-> op, id |-> id, data |-> data, status |-> status, body |-> body]

\* raise HTTPException(code, message)
HTTPException(message) == <<[detail |-> message]>>

\* An exception no handler catches: the server answers 500.
ServerError == <<[detail |-> "Internal Server Error"]>>

\* ------------------------------------------------------- shared handler code
\* The routers repeat the same handler bodies over their own collection.

\* create_*: after insert_one, the record built from the input and the new id.
CreateResponse(op, data) ==
    Response(op, NoId, data, 201, <<WithId(next_oid, data)>>)

\* Fault: find_one without the _id filter returns the collection's first
\* document.
GetResponse_unfiltered(op, col, raw, what) ==
    IF ~IsValidId(raw) THEN Response(op, raw, NoData, 400, HTTPException("Invalid id format"))
    ELSE IF DOMAIN col = {}
         THEN Response(op, raw, NoData, 404, HTTPException(what))
         ELSE LET first == CHOOSE o \in DOMAIN col : \A p \in DOMAIN col : o <= p
              IN Response(op, raw, NoData, 200, <<WithId(first, col[first])>>)

\* get_*: 400 for a malformed id, 404 when find_one returns None.
GetResponse(op, col, raw, what) ==
    IF ~IsValidId(raw) THEN Response(op, raw, NoData, 400, HTTPException("Invalid id format"))
    ELSE IF ObjectId(raw) \notin DOMAIN col
         THEN Response(op, raw, NoData, 404, HTTPException(what))
         ELSE Response(op, raw, NoData, 200,
                       <<WithId(ObjectId(raw), col[ObjectId(raw)])>>)

\* Fault: the except branch raises the not-found error.
DeleteResponse_except_404(op, col, raw, what) ==
    IF ~IsValidId(raw) THEN Response(op, raw, NoData, 404, HTTPException(what))
    ELSE IF deleted_count(col, ObjectId(raw)) = 0
         THEN Response(op, raw, NoData, 404, HTTPException(what))
         ELSE Response(op, raw, NoData, 204, <<>>)

\* Fault: deleted_count is not tested.
DeleteResponse_unchecked(op, col, raw, what) ==
    IF ~IsValidId(raw) THEN Response(op, raw, NoData, 400, HTTPException("Invalid id format"))
    ELSE Response(op, raw, NoData, 204, <<>>)

\* delete_*: 400 for a malformed id, 404 when deleted_count is 0, else 204.
DeleteResponse(op, col, raw, what) ==
    IF ~IsValidId(raw) THEN Response(op, raw, NoData, 400, HTTPException("Invalid id format"))
    ELSE IF deleted_count(col, ObjectId(raw)) = 0
         THEN Response(op, raw, NoData, 404, HTTPException(what))
         ELSE Response(op, raw, NoData, 204, <<>>)

\* delete_*: the collection after delete_one, which runs for a valid id only.
DeleteResult(col, raw) ==
    IF IsValidId(raw) THEN delete_one(col, ObjectId(raw)) ELSE col

\* update_*: the handler answers before find_one.
UpdateReturnsEarly(col, raw) ==
    ~IsValidId(raw) \/ matched_count(col, ObjectId(raw)) = 0

UpdateEarlyResponse(op, raw, data, what) ==
    IF ~IsValidId(raw) THEN Response(op, raw, data, 400, HTTPException("Invalid id format"))
    ELSE Response(op, raw, data, 404, HTTPException(what))

\* update_*: the collection after update_one, which runs for a valid id only.
UpdateResult(col, raw, data) ==
    IF IsValidId(raw) THEN update_one(col, ObjectId(raw), data) ELSE col

\* update_* between update_one and find_one: its locals.
UpdateFrame(op, raw, data) ==
    [op |-> op, id |-> raw, data |-> data, obj_id |-> ObjectId(raw)]

\* update_*, from find_one on: doc["_id"] = ... on None raises TypeError,
\* which no handler catches.
ReadBackResponse(f, col) ==
    IF f.obj_id \in DOMAIN col
    THEN Response(f.op, f.id, f.data, 200, <<WithId(f.obj_id, col[f.obj_id])>>)
    ELSE Response(f.op, f.id, f.data, 500, ServerError)

\* The storage has assigned fewer than n ObjectIds.
CanInsert(n) == next_oid < FirstOid + n

CanPark == Len(inflight) < MaxInflight

\* The in-flight handlers without the i-th.
Without(i) == [j \in 1..(Len(inflight) - 1) |-> IF j < i THEN inflight[j] ELSE inflight[j + 1]]

\* ------------------------------------------------------- instructor router
create_instructor(instructor) ==
    /\ instructors_col' = insert_one(instructors_col, next_oid, instructor)
    /\ next_oid' = next_oid + 1
    /\ resp' = CreateResponse("create_instructor", instructor)
    /\ UNCHANGED <<students_col, courses_col, enrollments_col, clock,
                   default_timestamp, inflight>>

list_instructors ==
    /\ resp' = Response("list_instructors", NoId, NoData, 200, find(instructors_col, DOMAIN instructors_col))
    /\ UNCHANGED <<cols, next_oid, clock, default_timestamp, inflight>>

get_instructor(instructor_id) ==
    /\ resp' = GetResponse("get_instructor", instructors_col, instructor_id, "Instructor not found")
    /\ UNCHANGED <<cols, next_oid, clock, default_timestamp, inflight>>

\* update_instructor up to update_one and the matched_count test.
update_instructor(instructor_id, data) ==
    /\ instructors_col' = UpdateResult(instructors_col, instructor_id, data)
    /\ IF UpdateReturnsEarly(instructors_col, instructor_id)
       THEN /\ resp' = UpdateEarlyResponse("update_instructor", instructor_id, data,
                                           "Instructor not found")
            /\ UNCHANGED inflight
       ELSE /\ CanPark
            /\ inflight' = Append(inflight, UpdateFrame("update_instructor", instructor_id, data))
            /\ UNCHANGED resp
    /\ UNCHANGED <<students_col, courses_col, enrollments_col, next_oid, clock,
                   default_timestamp>>

\* update_instructor from find_one on.
update_instructor_read(i) ==
    /\ inflight[i].op = "update_instructor"
    /\ resp' = ReadBackResponse(inflight[i], instructors_col)
    /\ inflight' = Without(i)
    /\ UNCHANGED <<cols, next_oid, clock, default_timestamp>>

\* Fault: deleting an instructor also deletes the courses that reference it.
delete_instructor_cascade(instructor_id) ==
    /\ instructors_col' = DeleteResult(instructors_col, instructor_id)
    /\ courses_col' = [o \in {c \in DOMAIN courses_col :
                                 courses_col[c].instructor_id # instructor_id}
                         |-> courses_col[o]]
    /\ resp' = DeleteResponse("delete_instructor", instructors_col, instructor_id,
                              "Instructor not found")
    /\ UNCHANGED <<students_col, enrollments_col, next_oid, clock,
                   default_timestamp, inflight>>

delete_instructor(instructor_id) ==
    /\ instructors_col' = DeleteResult(instructors_col, instructor_id)
    /\ resp' = DeleteResponse("delete_instructor", instructors_col, instructor_id, "Instructor not found")
    /\ UNCHANGED <<students_col, courses_col, enrollments_col, next_oid, clock,
                   default_timestamp, inflight>>

\* ------------------------------------------------------- student router
create_student(student) ==
    /\ students_col' = insert_one(students_col, next_oid, student)
    /\ next_oid' = next_oid + 1
    /\ resp' = CreateResponse("create_student", student)
    /\ UNCHANGED <<instructors_col, courses_col, enrollments_col, clock,
                   default_timestamp, inflight>>

list_students ==
    /\ resp' = Response("list_students", NoId, NoData, 200, find(students_col, DOMAIN students_col))
    /\ UNCHANGED <<cols, next_oid, clock, default_timestamp, inflight>>

get_student(student_id) ==
    /\ resp' = GetResponse("get_student", students_col, student_id, "Student not found")
    /\ UNCHANGED <<cols, next_oid, clock, default_timestamp, inflight>>

\* update_student up to update_one and the matched_count test.
update_student(student_id, data) ==
    /\ students_col' = UpdateResult(students_col, student_id, data)
    /\ IF UpdateReturnsEarly(students_col, student_id)
       THEN /\ resp' = UpdateEarlyResponse("update_student", student_id, data,
                                           "Student not found")
            /\ UNCHANGED inflight
       ELSE /\ CanPark
            /\ inflight' = Append(inflight, UpdateFrame("update_student", student_id, data))
            /\ UNCHANGED resp
    /\ UNCHANGED <<instructors_col, courses_col, enrollments_col, next_oid, clock,
                   default_timestamp>>

\* update_student from find_one on.
update_student_read(i) ==
    /\ inflight[i].op = "update_student"
    /\ resp' = ReadBackResponse(inflight[i], students_col)
    /\ inflight' = Without(i)
    /\ UNCHANGED <<cols, next_oid, clock, default_timestamp>>

delete_student(student_id) ==
    /\ students_col' = DeleteResult(students_col, student_id)
    /\ resp' = DeleteResponse("delete_student", students_col, student_id, "Student not found")
    /\ UNCHANGED <<instructors_col, courses_col, enrollments_col, next_oid, clock,
                   default_timestamp, inflight>>

\* ------------------------------------------------------- course router
create_course(course) ==
    /\ courses_col' = insert_one(courses_col, next_oid, course)
    /\ next_oid' = next_oid + 1
    /\ resp' = CreateResponse("create_course", course)
    /\ UNCHANGED <<instructors_col, students_col, enrollments_col, clock,
                   default_timestamp, inflight>>

list_courses ==
    /\ resp' = Response("list_courses", NoId, NoData, 200, find(courses_col, DOMAIN courses_col))
    /\ UNCHANGED <<cols, next_oid, clock, default_timestamp, inflight>>

get_course(course_id) ==
    /\ resp' = GetResponse("get_course", courses_col, course_id, "Course not found")
    /\ UNCHANGED <<cols, next_oid, clock, default_timestamp, inflight>>

\* update_course up to update_one and the matched_count test.
update_course(course_id, data) ==
    /\ courses_col' = UpdateResult(courses_col, course_id, data)
    /\ IF UpdateReturnsEarly(courses_col, course_id)
       THEN /\ resp' = UpdateEarlyResponse("update_course", course_id, data,
                                           "Course not found")
            /\ UNCHANGED inflight
       ELSE /\ CanPark
            /\ inflight' = Append(inflight, UpdateFrame("update_course", course_id, data))
            /\ UNCHANGED resp
    /\ UNCHANGED <<instructors_col, students_col, enrollments_col, next_oid, clock,
                   default_timestamp>>

\* update_course from find_one on.
update_course_read(i) ==
    /\ inflight[i].op = "update_course"
    /\ resp' = ReadBackResponse(inflight[i], courses_col)
    /\ inflight' = Without(i)
    /\ UNCHANGED <<cols, next_oid, clock, default_timestamp>>

delete_course(course_id) ==
    /\ courses_col' = DeleteResult(courses_col, course_id)
    /\ resp' = DeleteResponse("delete_course", courses_col, course_id, "Course not found")
    /\ UNCHANGED <<instructors_col, students_col, enrollments_col, next_oid, clock,
                   default_timestamp, inflight>>

\* courses_col.find({"instructor_id": instructor_id}): the raw string is
\* compared with the stored one; no ObjectId is built.
get_courses_by_instructor(instructor_id) ==
    /\ resp' = Response("get_courses_by_instructor", instructor_id, NoData, 200,
                        find(courses_col,
                             {o \in DOMAIN courses_col :
                                 courses_col[o].instructor_id = instructor_id}))
    /\ UNCHANGED <<cols, next_oid, clock, default_timestamp, inflight>>

\* ------------------------------------------------------- enrollment router
enroll_student(body) ==
    /\ enrollments_col' = insert_one(enrollments_col, next_oid, EnrollmentCreate(body))
    /\ next_oid' = next_oid + 1
    /\ resp' = Response("enroll_student", NoId, body, 201,
                        <<WithId(next_oid, EnrollmentCreate(body))>>)
    /\ UNCHANGED <<instructors_col, students_col, courses_col, clock,
                   default_timestamp, inflight>>

list_enrollments ==
    /\ resp' = Response("list_enrollments", NoId, NoData, 200, find(enrollments_col, DOMAIN enrollments_col))
    /\ UNCHANGED <<cols, next_oid, clock, default_timestamp, inflight>>

delete_enrollment(enrollment_id) ==
    /\ enrollments_col' = DeleteResult(enrollments_col, enrollment_id)
    /\ resp' = DeleteResponse("delete_enrollment", enrollments_col, enrollment_id,
                              "Enrollment not found")
    /\ UNCHANGED <<instructors_col, students_col, courses_col, next_oid, clock,
                   default_timestamp, inflight>>

\* [e[field] for e in list(enrollments_col.find({key: value}))]
References(key, value, field) ==
    LET order == InOrder({o \in DOMAIN enrollments_col : enrollments_col[o][key] = value})
    IN [i \in 1..Len(order) |-> enrollments_col[order[i]][field]]

\* Fault: one find_one per reference instead of one $in query: a document
\* referenced twice is returned twice.
Lookup_per_reference(refs, col) ==
    IF \E i \in 1..Len(refs) : ~IsValidId(refs[i])
    THEN [status |-> 500, body |-> ServerError]
    ELSE LET hits == SelectSeq(refs, LAMBDA r : ObjectId(r) \in DOMAIN col)
         IN [status |-> 200,
             body |-> [i \in 1..Len(hits) |->
                          WithId(ObjectId(hits[i]), col[ObjectId(hits[i])])]]

\* [ObjectId(r) for r in refs] raises bson.errors.InvalidId on a malformed
\* reference, which no handler catches.  Otherwise
\* col.find({"_id": {"$in": [...]}}) and the _id conversion loop.
Lookup(refs, col) ==
    IF \E i \in 1..Len(refs) : ~IsValidId(refs[i])
    THEN [status |-> 500, body |-> ServerError]
    ELSE [status |-> 200,
          body |-> find(col, {o \in DOMAIN col :
                                 \E i \in 1..Len(refs) : ObjectId(refs[i]) = o})]

\* History, for the properties: what both queries answer when run with nothing
\* in between, in the current state.
Atomic(key, value, field, col) == Lookup(References(key, value, field), col)

\* A relational handler between its two queries: its locals, and (history)
\* the answer it would have given had it run both queries at once.
LookupFrame(op, raw, refs, before) ==
    [op |-> op, id |-> raw, refs |-> refs, before |-> before]

\* Fault-free but atomic: both queries run in the second step, as under a
\* transaction; the references of the first step are not used.
LookupResponse_atomic(f, col, after) ==
    [op |-> f.op, id |-> f.id, data |-> NoData,
     status |-> after.status, body |-> after.body,
     before |-> f.before, after |-> after]

\* The response of a relational handler, with (history) the answers that
\* both queries give when run at once, at its first query and now.
LookupResponse(f, col, after) ==
    [op |-> f.op, id |-> f.id, data |-> NoData,
     status |-> Lookup(f.refs, col).status, body |-> Lookup(f.refs, col).body,
     before |-> f.before, after |-> after]

\* get_courses_of_student up to the first query and the course_ids list.
get_courses_of_student(student_id) ==
    /\ CanPark
    /\ inflight' = Append(inflight,
          LookupFrame("get_courses_of_student", student_id,
                      References("student_id", student_id, "course_id"),
                      Atomic("student_id", student_id, "course_id", courses_col)))
    /\ UNCHANGED <<cols, next_oid, clock, default_timestamp, resp>>

\* get_courses_of_student from the second query on.
get_courses_of_student_lookup(i) ==
    /\ inflight[i].op = "get_courses_of_student"
    /\ resp' = LookupResponse(inflight[i], courses_col,
                              Atomic("student_id", inflight[i].id, "course_id", courses_col))
    /\ inflight' = Without(i)
    /\ UNCHANGED <<cols, next_oid, clock, default_timestamp>>

\* get_students_of_course up to the first query and the student_ids list.
get_students_of_course(course_id) ==
    /\ CanPark
    /\ inflight' = Append(inflight,
          LookupFrame("get_students_of_course", course_id,
                      References("course_id", course_id, "student_id"),
                      Atomic("course_id", course_id, "student_id", students_col)))
    /\ UNCHANGED <<cols, next_oid, clock, default_timestamp, resp>>

\* get_students_of_course from the second query on.
get_students_of_course_lookup(i) ==
    /\ inflight[i].op = "get_students_of_course"
    /\ resp' = LookupResponse(inflight[i], students_col,
                              Atomic("course_id", inflight[i].id, "student_id", students_col))
    /\ inflight' = Without(i)
    /\ UNCHANGED <<cols, next_oid, clock, default_timestamp>>

\* ------------------------------------------------------------------- clock
Tick ==
    /\ clock < MaxClock
    /\ clock' = clock + 1
    /\ UNCHANGED <<cols, next_oid, default_timestamp, inflight, resp>>

\* ------------------------------------------------------------------- start
NoResponse == Response("none", NoId, NoData, 0, <<>>)

\* The module is imported (the class default is taken from the clock) and
\* the database is empty.
Init ==
    /\ instructors_col = <<>>
    /\ students_col = <<>>
    /\ courses_col = <<>>
    /\ enrollments_col = <<>>
    /\ next_oid = FirstOid
    /\ clock = 0
    /\ default_timestamp = clock
    /\ inflight = <<>>
    /\ resp = NoResponse

\* The instructor, student and course routers, and the enrollment router's
\* single-query handlers.
Next ==
    \/ CanInsert(MaxDocs) /\ \E d \in InstructorCreate : create_instructor(d)
    \/ list_instructors
    \/ \E id \in PathIds(MaxDocs) : get_instructor(id)
    \/ \E id \in PathIds(MaxDocs), d \in InstructorCreate : update_instructor(id, d)
    \/ \E i \in DOMAIN inflight : update_instructor_read(i)
    \/ \E id \in PathIds(MaxDocs) : delete_instructor(id)
    \/ CanInsert(MaxDocs) /\ \E d \in StudentCreate : create_student(d)
    \/ list_students
    \/ \E id \in PathIds(MaxDocs) : get_student(id)
    \/ \E id \in PathIds(MaxDocs), d \in StudentCreate : update_student(id, d)
    \/ \E i \in DOMAIN inflight : update_student_read(i)
    \/ \E id \in PathIds(MaxDocs) : delete_student(id)
    \/ CanInsert(MaxDocs) /\ \E d \in CourseCreate : create_course(d)
    \/ list_courses
    \/ \E id \in PathIds(MaxDocs) : get_course(id)
    \/ \E id \in PathIds(MaxDocs), d \in CourseCreate : update_course(id, d)
    \/ \E i \in DOMAIN inflight : update_course_read(i)
    \/ \E id \in PathIds(MaxDocs) : delete_course(id)
    \/ \E id \in PathIds(MaxDocs) : get_courses_by_instructor(id)
    \/ CanInsert(MaxDocs) /\ \E b \in EnrollmentBodies : enroll_student(b)
    \/ list_enrollments
    \/ \E id \in PathIds(MaxDocs) : delete_enrollment(id)

Spec == Init /\ [][Next]_vars

\* The enrollment router with the student and course routers' writes.  The
\* client sends the identifiers of stored documents and a malformed one.
RelBodies ==
    [student_id : IdsOf(students_col) \cup {NonHexId}, course_id : RefIds(courses_col)]

RelIds(col) == IdsOf(col) \cup {NonHexId}

NextRel ==
    \/ CanInsert(MaxRelDocs) /\ \E d \in StudentCreate : d.name = "Eve" /\ create_student(d)
    \/ \E id \in RelIds(students_col) : delete_student(id)
    \/ CanInsert(MaxRelDocs) /\ \E d \in CourseCreate : create_course(d)
    \/ \E id \in RelIds(courses_col) : delete_course(id)
    \/ CanInsert(MaxRelDocs) /\ \E b \in RelBodies : enroll_student(b)
    \/ \E id \in RelIds(enrollments_col) : delete_enrollment(id)
    \/ \E id \in RelIds(students_col) : get_courses_of_student(id)
    \/ \E i \in DOMAIN inflight : get_courses_of_student_lookup(i)
    \/ \E id \in RelIds(courses_col) : get_students_of_course(id)
    \/ \E i \in DOMAIN inflight : get_students_of_course_lookup(i)

SpecRel == Init /\ [][NextRel]_vars

\* Enrollments over time.
NextClock ==
    \/ Tick
    \/ CanInsert(MaxClockDocs) /\ \E b \in EnrollmentBodies : enroll_student(b)
    \/ list_enrollments
    \/ \E id \in PathIds(MaxClockDocs) : delete_enrollment(id)

SpecClock == Init /\ [][NextClock]_vars

\* ============================================================== properties
CrudKinds == {"instructor", "student", "course"}

Kinds == CrudKinds \cup {"enrollment"}

Col(k) ==
    CASE k = "instructor" -> instructors_col
      [] k = "student" -> students_col
      [] k = "course" -> courses_col
      [] k = "enrollment" -> enrollments_col

CreateOp(k) == "create_" \o k
GetOp(k) == "get_" \o k
UpdateOp(k) == "update_" \o k
DeleteOp(k) == "delete_" \o k

NotFound(k) ==
    CASE k = "instructor" -> "Instructor not found"
      [] k = "student" -> "Student not found"
      [] k = "course" -> "Course not found"
      [] k = "enrollment" -> "Enrollment not found"

\* This step answers a request that answers in the step of its only (or
\* first) storage call.
AnswersAtOnce == resp' # resp /\ inflight' = inflight

\* The in-flight handlers.
Frames == {inflight[i] : i \in DOMAIN inflight}

\* This step is the second step of the in-flight handler f.
Finishes(f) == \E i \in DOMAIN inflight : inflight[i] = f /\ inflight' = Without(i)

\* This step is the first step of a handler that parks as f.
Parks(f) == inflight' = Append(inflight, f)

\* The handler that parks in this step, if one does.
Parking == IF Len(inflight') = Len(inflight) + 1 THEN {inflight'[Len(inflight')]} ELSE {}

\* This step writes the record o of kind k: an update or a delete of it.
Writes(k, o) ==
    \/ \E f \in Parking : Parks(f) /\ f.op = UpdateOp(k) /\ f.obj_id = o
    \/ /\ AnswersAtOnce
       /\ resp'.op = DeleteOp(k)
       /\ IsValidId(resp'.id)
       /\ ObjectId(resp'.id) = o

\* C1: for Instructor, Student and Course, create answers 201 with the
\* assigned identifier, and getById on that identifier then answers 200 with
\* a record whose fields equal the input and whose identifier is the
\* assigned one; this stays so for as long as no step updates or deletes
\* that record.
C1_CreateThenGet ==
    [][\A k \in CrudKinds :
        /\ (AnswersAtOnce /\ resp'.op = CreateOp(k)) =>
              /\ resp'.status = 201
              /\ next_oid \notin DOMAIN Col(k)
              /\ resp'.body = <<WithId(next_oid, resp'.data)>>
              /\ GetResponse(GetOp(k), Col(k)', resp'.body[1]._id, NotFound(k))
                    = Response(GetOp(k), ObjectIdStr(next_oid), NoData, 200,
                               <<[f \in DOMAIN resp'.data \cup {"_id"} |->
                                    IF f = "_id" THEN ObjectIdStr(next_oid)
                                    ELSE resp'.data[f]]>>)
        /\ \A o \in DOMAIN Col(k) :
              ~Writes(k, o) => o \in DOMAIN Col(k)' /\ Col(k)'[o] = Col(k)[o]
        /\ (AnswersAtOnce /\ resp'.op = GetOp(k) /\ resp'.status = 200) =>
              /\ IsValidId(resp'.id)
              /\ ObjectId(resp'.id) \in DOMAIN Col(k)
              /\ Len(resp'.body) = 1
              /\ resp'.body[1]._id = ObjectIdStr(ObjectId(resp'.id))
              /\ \A f \in DOMAIN Col(k)[ObjectId(resp'.id)] :
                    resp'.body[1][f] = Col(k)[ObjectId(resp'.id)][f]
      ]_vars

\* C1's case: getById has answered 200 with a stored course, its fields and
\* its identifier.
C1_Witness ==
    /\ resp.op = "get_course"
    /\ resp.status = 200
    /\ \E o \in DOMAIN courses_col :
          /\ resp.body[1]._id = ObjectIdStr(o)
          /\ resp.body[1].title = courses_col[o].title
          /\ resp.body[1].instructor_id = courses_col[o].instructor_id

IdOps(k) == {GetOp(k), UpdateOp(k), DeleteOp(k)}

\* C2: getById, update and deleteById with an identifier string that is not
\* well-formed answer 400 (never 404), whatever the storage holds, and leave
\* every collection unchanged.
C2_MalformedId ==
    [][\A k \in Kinds :
        (AnswersAtOnce /\ resp'.op \in IdOps(k) /\ ~IsValidId(resp'.id)) =>
            /\ resp'.status = 400
            /\ UNCHANGED cols
      ]_vars

\* C2's case: an update with a malformed identifier was answered 400 while
\* the collection holds a record.
C2_Witness ==
    /\ resp.op = "update_instructor"
    /\ ~IsValidId(resp.id)
    /\ resp.status = 400
    /\ DOMAIN instructors_col # {}

\* C3: getById, update and deleteById with a well-formed identifier that
\* matches no record of the collection answer 404 and leave storage
\* unchanged; a delete answered 204 removed the record, and an identifier
\* once assigned and now absent stays absent, so that every later delete of
\* it answers 404 too.
C3_AbsentId ==
    [][\A k \in Kinds :
        /\ ( /\ AnswersAtOnce
             /\ resp'.op \in IdOps(k)
             /\ IsValidId(resp'.id)
             /\ ObjectId(resp'.id) \notin DOMAIN Col(k) ) =>
                /\ resp'.status = 404
                /\ UNCHANGED cols
        /\ (AnswersAtOnce /\ resp'.op = DeleteOp(k) /\ resp'.status = 204) =>
                /\ ObjectId(resp'.id) \in DOMAIN Col(k)
                /\ ObjectId(resp'.id) \notin DOMAIN Col(k)'
        /\ \A o \in FirstOid .. (next_oid - 1) :
                o \notin DOMAIN Col(k) => o \notin DOMAIN Col(k)'
      ]_vars

\* C3's case: a delete of an identifier that was assigned and is stored
\* nowhere any more was answered 404.
C3_Witness ==
    /\ resp.op = "delete_instructor"
    /\ IsValidId(resp.id)
    /\ resp.status = 404
    /\ ObjectId(resp.id) < next_oid
    /\ ObjectId(resp.id) >= FirstOid
    /\ \A k \in Kinds : ObjectId(resp.id) \notin DOMAIN Col(k)

\* C4: update of an existing record is a full replace: after the write every
\* field of the stored record equals the input (an omitted optional field is
\* None), the set of identifiers is the same, no other record and no other
\* collection changed; and the record returned is the one stored at the
\* read-back, under the identifier requested.
C4_FullReplace ==
    [][\A k \in CrudKinds :
        /\ \A f \in Parking :
              (Parks(f) /\ f.op = UpdateOp(k)) =>
                 /\ f.obj_id \in DOMAIN Col(k)
                 /\ DOMAIN Col(k)' = DOMAIN Col(k)
                 /\ DOMAIN Col(k)'[f.obj_id] = DOMAIN f.data
                 /\ \A fld \in DOMAIN f.data : Col(k)'[f.obj_id][fld] = f.data[fld]
                 /\ \A o \in DOMAIN Col(k) \ {f.obj_id} : Col(k)'[o] = Col(k)[o]
                 /\ \A j \in Kinds \ {k} : Col(j)' = Col(j)
        /\ \A f \in Frames :
              (Finishes(f) /\ f.op = UpdateOp(k) /\ resp'.status = 200) =>
                 /\ Len(resp'.body) = 1
                 /\ resp'.body[1]._id = ObjectIdStr(ObjectId(f.id))
                 /\ \A fld \in DOMAIN Col(k)[f.obj_id] :
                       resp'.body[1][fld] = Col(k)[f.obj_id][fld]
                 /\ UNCHANGED cols
      ]_vars

\* C4's case: an update whose input omits the optional field was answered
\* 200 and the stored record equals the input.
C4_Witness ==
    /\ resp.op = "update_instructor"
    /\ resp.status = 200
    /\ resp.data.expertise = None
    /\ resp.body[1].expertise = None
    /\ ObjectId(resp.id) \in DOMAIN instructors_col
    /\ instructors_col[ObjectId(resp.id)] = resp.data

\* The courses whose instructor reference is the string raw.
CoursesOf(col, raw) == {o \in DOMAIN col : col[o].instructor_id = raw}

\* C5: a delete of an Instructor, Student or Course changes no collection
\* but its own; deleting an instructor leaves the courses that reference it
\* stored, and coursesByInstructor returns every course whose instructor
\* reference is the identifier asked for, each once, whether or not that
\* instructor is stored.
C5_NoCascade ==
    [][/\ \A k \in CrudKinds :
            (AnswersAtOnce /\ resp'.op = DeleteOp(k)) =>
                \A j \in Kinds \ {k} : Col(j)' = Col(j)
       /\ (AnswersAtOnce /\ resp'.op = "delete_instructor") =>
            /\ CoursesOf(courses_col', resp'.id) = CoursesOf(courses_col, resp'.id)
       /\ (AnswersAtOnce /\ resp'.op = "get_courses_by_instructor") =>
            /\ resp'.status = 200
            /\ {resp'.body[i]._id : i \in 1..Len(resp'.body)}
                  = {ObjectIdStr(o) : o \in CoursesOf(courses_col, resp'.id)}
            /\ Len(resp'.body) = Cardinality(CoursesOf(courses_col, resp'.id))
      ]_vars

\* C5's case: coursesByInstructor returned a course for an instructor that
\* was deleted.
C5_Witness ==
    /\ resp.op = "get_courses_by_instructor"
    /\ IsValidId(resp.id)
    /\ ObjectId(resp.id) \notin DOMAIN instructors_col
    /\ Len(resp.body) > 0
    /\ \E o \in DOMAIN courses_col : courses_col[o].instructor_id = resp.id

\* C9: an update request ends in 400, 404 or 200 with a record that carries
\* the requested identifier.
C9_UpdateOutcome ==
    \A k \in CrudKinds :
        resp.op = UpdateOp(k) =>
            /\ resp.status \in {400, 404, 200}
            /\ resp.status = 200 => resp.body[1]._id = ObjectIdStr(ObjectId(resp.id))

RelOps == {"get_courses_of_student", "get_students_of_course"}

\* The enrollment field a relational handler filters on, the field it
\* extracts, and the collection it looks the references up in.
KeyOf(op) == IF op = "get_courses_of_student" THEN "student_id" ELSE "course_id"
FieldOf(op) == IF op = "get_courses_of_student" THEN "course_id" ELSE "student_id"
TargetOf(op) == IF op = "get_courses_of_student" THEN courses_col ELSE students_col

\* The stored enrollments whose key field is the string raw.
EnrollmentsOf(op, raw) ==
    {e \in DOMAIN enrollments_col : enrollments_col[e][KeyOf(op)] = raw}

\* The stored target documents that at least one of those enrollments
\* references.
Referenced(op, raw) ==
    {o \in DOMAIN TargetOf(op) :
        \E e \in EnrollmentsOf(op, raw) :
            /\ IsValidId(enrollments_col[e][FieldOf(op)])
            /\ ObjectId(enrollments_col[e][FieldOf(op)]) = o}

\* The body holds exactly the documents S of the target collection, each once.
ReturnsExactly(body, op, S) ==
    /\ Len(body) = Cardinality(S)
    /\ \A o \in S : \E i \in 1..Len(body) :
          /\ body[i]._id = ObjectIdStr(o)
          /\ \A fld \in DOMAIN TargetOf(op)[o] : body[i][fld] = TargetOf(op)[o][fld]

\* C6 as stated: coursesOfStudent / studentsOfCourse answers 200 with exactly
\* the stored documents referenced by at least one enrollment of the
\* identifier asked for, each once.
C6_AsStated ==
    [][\A f \in Frames :
        (Finishes(f) /\ f.op \in RelOps) =>
            /\ resp'.status = 200
            /\ ReturnsExactly(resp'.body, f.op, Referenced(f.op, f.id))
      ]_vars

\* C6 as amended: with no enrollment at the first query the answer is 200 and
\* the empty sequence; when every reference extracted is well-formed and the
\* references of the matching enrollments are the same at the second query
\* as at the first, the answer is 200 with exactly the stored documents that
\* at least one of these enrollments references, each once.
C6_Amended ==
    [][\A f \in Frames :
        (Finishes(f) /\ f.op \in RelOps) =>
            /\ f.refs = <<>> => resp'.status = 200 /\ resp'.body = <<>>
            /\ ( /\ \A i \in 1..Len(f.refs) : IsValidId(f.refs[i])
                 /\ {f.refs[i] : i \in 1..Len(f.refs)}
                       = {enrollments_col[e][FieldOf(f.op)] : e \in EnrollmentsOf(f.op, f.id)} ) =>
                    /\ resp'.status = 200
                    /\ ReturnsExactly(resp'.body, f.op, Referenced(f.op, f.id))
      ]_vars

\* C6's case: two enrollments of the student reference the same stored
\* course, and coursesOfStudent returned that course once.
C6_Witness ==
    /\ resp.op = "get_courses_of_student"
    /\ resp.status = 200
    /\ Len(resp.body) = 1
    /\ resp.after.body = resp.body
    /\ Cardinality({e \in EnrollmentsOf(resp.op, resp.id) :
            /\ IsValidId(enrollments_col[e].course_id)
            /\ ObjectId(enrollments_col[e].course_id) \in DOMAIN courses_col
            /\ ObjectIdStr(ObjectId(enrollments_col[e].course_id)) = resp.body[1]._id}) >= 2

\* C8: enrollment creation accepts any strings as references, and a
\* relational handler that extracts a malformed reference answers 400.
C8_BadReference ==
    [][/\ (AnswersAtOnce /\ resp'.op = "enroll_student") =>
            /\ resp'.status = 201
            /\ enrollments_col'[next_oid].student_id = resp'.data.student_id
            /\ enrollments_col'[next_oid].course_id = resp'.data.course_id
       /\ \A f \in Frames :
            ( /\ Finishes(f)
              /\ f.op \in RelOps
              /\ \E i \in 1..Len(f.refs) : ~IsValidId(f.refs[i]) ) =>
                 resp'.status = 400
      ]_vars

\* C10: a relational handler is two storage steps.  The first reads the
\* enrollments only and keeps their references; the second looks these
\* references, not the enrollments of that moment, up in the target
\* collection as it is then.  Neither step writes.
C10_TwoQueries ==
    [][\A op \in RelOps :
        /\ \A f \in Parking :
              (Parks(f) /\ f.op = op) =>
                 /\ Len(f.refs) = Cardinality(EnrollmentsOf(op, f.id))
                 /\ {f.refs[i] : i \in 1..Len(f.refs)}
                       = {enrollments_col[e][FieldOf(op)] : e \in EnrollmentsOf(op, f.id)}
                 /\ UNCHANGED cols
        /\ \A f \in Frames :
              (Finishes(f) /\ f.op = op /\ \A i \in 1..Len(f.refs) : IsValidId(f.refs[i])) =>
                 /\ resp'.status = 200
                 /\ ReturnsExactly(resp'.body, op,
                        {o \in DOMAIN TargetOf(op) :
                            \E i \in 1..Len(f.refs) : ObjectId(f.refs[i]) = o})
                 /\ UNCHANGED cols
      ]_vars

\* C10's case: a relational handler returned a sequence that is the answer
\* neither in the storage state of its first query nor in that of its second.
C10_Witness ==
    /\ resp.op \in RelOps
    /\ resp.status = 200
    /\ resp.before.status = 200
    /\ resp.after.status = 200
    /\ resp.body # resp.before.body
    /\ resp.body # resp.after.body

\* C7: an enrollment created without an explicit timestamp is stored with the
\* clock value of the moment its request is handled.
C7_TimestampIsNow ==
    [][(AnswersAtOnce /\ resp'.op = "enroll_student" /\ "timestamp" \notin DOMAIN resp'.data) =>
            enrollments_col'[next_oid].timestamp = clock
      ]_vars

====
